---------------------------- MODULE Spec2Model ----------------------------
(***************************************************************************)
(* A model of fstsed: the FST match engine (FstSed::longest_match_at and   *)
(* its scratch), the boundary-aware scanner (FstMatches), the JSON quote   *)
(* scanner (JsonQuotes, jsonquotes_range_iter), the line drivers           *)
(* (process_line, runjson, run_onlymatching), the process (main, the run   *)
(* mode it dispatches to, the output pipe) and the builder (build_fstsed). *)
(*                                                                         *)
(* Bytes are the integers 0..255.  A byte string is a sequence of bytes.   *)
(* The FST is modelled by the set of byte strings it stores; a node of the *)
(* automaton is the byte string read from the root to reach it, so that    *)
(* the transitions, final nodes and accepted language are those of the     *)
(* (minimised) automaton the fst crate builds from the same set.           *)
(***************************************************************************)
EXTENDS Integers, Sequences, FiniteSets, TLC

VARIABLES
    fst,          \* FstSed.fst: the set of stored records K \o <<0>> \o C
    keycache,     \* FstSed.keycache
    valuecache,   \* FstSed.valuecache
    startcache,   \* FstSed.startcache
    text,         \* argument of the calls of longest_match_at (engine runs)
    callStart,    \* the start argument of the last call of longest_match_at
    ret,          \* what the last call returned: <<>> is None, <<n>> is Some(n)
    called,       \* whether longest_match_at has been called
    haystack,     \* FstMatches.haystack
    skip,         \* FstMatches.skip
    reiter,       \* FstMatches.reiter: the start offsets of the seeds not yet pulled
    yields,       \* the <<start, length>> of each match next() has returned so far
    exhausted,    \* whether next() has returned None
    probes,       \* the <<seed, offset>> of each call of longest_match_at next() made
    dropped,      \* for each match returned, the seeds next() discarded after it
    qiter,        \* JsonQuotes.iter: the offset the memchr2 search continues from
    lastescape,   \* JsonQuotes.lastescape
    ranges,       \* the ranges jsonquotes_range_iter has yielded so far
    qdone,        \* whether jsonquotes_range_iter has returned None
    overflow_checks, \* whether the build panics on integer overflow (debug) or wraps (release)
    panicked,     \* whether the program has panicked
    out,          \* the bytes written to the output, each with the offset of the
                  \* line it was copied from (-1: not copied from the line)
    lineDone,     \* whether the line driver has processed the line
    args,         \* main: the parsed command line (Args)
    is_tty,       \* what grep_cli::is_tty_stdout() answers
    template,     \* FstSed.template
    input,        \* the lines the reader has not yielded yet
    broken,       \* whether the reader of the output pipe has gone
    pc,           \* where the process is: "idle", "main", "run", "exit"
    status,       \* the exit status of the process (-1: it has not exited)
    write_failed, \* whether a write to the output has returned Err(BrokenPipe)
    io_error,     \* whether the output answers a write with another error
                  \* (WouldBlock, StorageFull, ...)
    io_failed,    \* whether a write to the output has returned such an Err
    key,          \* build_fstsed: the selector of the key
    sorted,       \* build_fstsed: whether the input is said to be sorted
    vals,         \* build_fstsed: the tuples buffered
    num_errors,   \* build_fstsed: the errored lines counted
    num_blanks,   \* build_fstsed: the blank lines counted
    output,       \* the file at the output path: <<>> when there is none, else
                  \* <<the records written to it, in order>>
    consumed,     \* the lines for_byte_line has handed to the closure, each with
                  \* whether copy_encode succeeded on it
    result        \* what build_fstsed did: "none" (running), "Ok", "Err", "panic"

engineVars == <<fst, keycache, valuecache, startcache>>

callVars == <<text, callStart, ret, called>>

scanVars == <<haystack, skip, reiter, yields, exhausted, probes, dropped>>

quoteVars == <<qiter, lastescape, ranges, qdone>>

driverVars == <<out, lineDone>>

buildVars == <<overflow_checks, panicked>>

mainVars == <<args, is_tty, template, input, broken, pc, status, write_failed,
              io_error, io_failed>>

builderVars == <<key, sorted, vals, num_errors, num_blanks, output, consumed, result>>

vars == <<engineVars, callVars, scanVars, quoteVars, driverVars, buildVars, mainVars,
          builderVars>>

-----------------------------------------------------------------------------
(* Bytes *)

\* fstsed.rs:15 and build.rs:11
SENTINEL == 0

ByteA == 97
ByteSpace == 32
ByteDash == 45
ByteQuote == 34
ByteBackslash == 92
ByteNewline == 10
\* 0xC3 0xA9 is the UTF-8 encoding of U+00E9 (a letter), 0xC3 0x97 that of
\* U+00D7 (the multiplication sign, not a word character); 0xA9 and 0x97 alone,
\* or 0xC3 not followed by a continuation byte, are not valid UTF-8.
ByteC3 == 195
ByteA9 == 169
Byte97 == 151

None == <<>>
Some(n) == <<n>>

\* [A-Za-z0-9_]
AsciiWord == (65..90) \cup (97..122) \cup (48..57) \cup {95}

\* The scalar values of two-byte UTF-8 sequences that are Unicode word
\* characters, for the sequences the model's bytes can form (U+00E9).
UnicodeWordScalars == {233}

\* Op(v), with v evaluated once
With(v, Op(_)) == CHOOSE x \in {Op(r) : r \in {v}} : TRUE

IsPrefix(p, s) == Len(p) <= Len(s) /\ SubSeq(s, 1, Len(p)) = p

Suffix(s, i) == SubSeq(s, i, Len(s))

\* RE_UNICODE_BOUNDARY.is_match(rest): the regex ^\W of regex::bytes in
\* Unicode mode matches when rest begins with the valid UTF-8 encoding of a
\* scalar value that is not a word character.
RE_UNICODE_BOUNDARY_ascii(rest) ==
    /\ Len(rest) >= 1
    /\ rest[1] \notin AsciiWord

RE_UNICODE_BOUNDARY_any(rest) == TRUE

RE_UNICODE_BOUNDARY(rest) ==
    /\ Len(rest) >= 1
    /\ \/ rest[1] < 128 /\ rest[1] \notin AsciiWord
       \/ /\ rest[1] \in 194..223
          /\ Len(rest) >= 2
          /\ rest[2] \in 128..191
          /\ ((rest[1] - 192) * 64 + (rest[2] - 128)) \notin UnicodeWordScalars

-----------------------------------------------------------------------------
(* The automaton *)

\* node.find_input(b).is_some(), for the node reached by reading `node`
find_input(f, node, b) == \E r \in f : IsPrefix(Append(node, b), r)

\* node.is_final()
is_final(f, node) == node \in f

\* node.transitions().next(): the transition on the smallest input byte
first_transition(f, node) ==
    LET inps == {r[Len(node) + 1] : r \in {q \in f : IsPrefix(node, q) /\ Len(q) > Len(node)}}
    IN  IF inps = {} THEN None
        ELSE Some(CHOOSE b \in inps : \A c \in inps : b <= c)

\* fstsed.rs:279-290: from the node after the sentinel, push the input of the
\* first transition of each node until a final node (or a node with none).
RECURSIVE value_chain(_, _, _)
value_chain(f, snode, acc) ==
    IF is_final(f, snode) THEN acc
    ELSE LET t == first_transition(f, snode)
         IN  IF t = None THEN acc
             ELSE value_chain(f, Append(snode, t[1]), Append(acc, t[1]))

\* FstSed::clear
clear == [key |-> <<>>, val |-> <<>>, start |-> 0]

\* fstsed.rs:267: i is the 1-based index of the byte just read (the code's i+1)
candidate_ok_noend(value, i) == RE_UNICODE_BOUNDARY(Suffix(value, i + 1))

candidate_ok(value, i) ==
    i = Len(value) \/ RE_UNICODE_BOUNDARY(Suffix(value, i + 1))

\* fstsed.rs:269-290: the scratch after a candidate is accepted
accept_noclear(f, sc, value, start, i, node) ==
    [key   |-> sc.key \o SubSeq(value, 1, i),
     val   |-> value_chain(f, Append(node, SENTINEL), sc.val),
     start |-> start]

accept(f, sc, value, start, i, node) ==
    [key   |-> clear.key \o SubSeq(value, 1, i),
     val   |-> value_chain(f, Append(node, SENTINEL), clear.val),
     start |-> start]

\* fstsed.rs:258-297: the walk from byte i of value (1-based), at `node`,
\* with last_match = last and the scratch sc.
RECURSIVE walk(_, _, _, _, _, _, _)
walk(f, value, start, i, node, last, sc) ==
    IF i > Len(value) THEN [ret |-> last, sc |-> sc]
    ELSE IF ~find_input(f, node, value[i]) THEN [ret |-> last, sc |-> sc]
    ELSE LET n2 == Append(node, value[i])
         IN  IF find_input(f, n2, SENTINEL) /\ candidate_ok(value, i)
             THEN walk(f, value, start, i + 1, n2, Some(i),
                       accept(f, sc, value, start, i, n2))
             ELSE walk(f, value, start, i + 1, n2, last, sc)

\* A longest_match_at that tests the root for the sentinel before it reads a
\* byte of the text
longest_match_at_root(f, sc, txt, start) ==
    LET value == Suffix(txt, start + 1)
    IN  IF find_input(f, <<>>, SENTINEL) /\ candidate_ok(value, 0)
        THEN walk(f, value, start, 1, <<>>, Some(0), accept(f, sc, value, start, 0, <<>>))
        ELSE walk(f, value, start, 1, <<>>, None, sc)

\* FstSed::longest_match_at(text, start) on an engine whose scratch is sc:
\* the value returned and the scratch left behind.
longest_match_at(f, sc, txt, start) ==
    walk(f, Suffix(txt, start + 1), start, 1, <<>>, None, sc)

\* FstSed::longest_match
longest_match(f, sc, txt) == longest_match_at(f, sc, txt, 0)

get_match_len(sc) == Len(sc.key)

get_match_start(sc) == sc.start

scratch == [key |-> keycache, val |-> valuecache, start |-> startcache]

-----------------------------------------------------------------------------
(* Inputs *)

MaxTextLen == 4

Rec(k, c) == k \o <<SENTINEL>> \o c

SeqsUpTo(S, n) == UNION {[1..m -> S] : m \in 0..n}

\* The records the databases of the engine runs are drawn from: a key, two
\* longer keys it is a proper prefix of (one contains a non-word byte), and
\* values of different lengths.
EngineRecords ==
    { Rec(<<ByteA>>, <<40, 181>>),
      Rec(<<ByteA, ByteA>>, <<7>>),
      Rec(<<ByteA, ByteSpace, ByteA>>, <<40, 181, 47>>) }

EngineAlphabet == {SENTINEL, ByteA, ByteSpace, ByteC3, ByteA9, Byte97}

\* The variables of the parts a run does not use
CallIdle == text = <<>> /\ callStart = 0 /\ ret = None /\ called = FALSE

ScanIdle ==
    /\ haystack = <<>> /\ skip = 0 /\ reiter = <<>> /\ yields = <<>> /\ exhausted = FALSE
    /\ probes = <<>> /\ dropped = <<>>

QuoteIdle == qiter = 0 /\ lastescape = 0 /\ ranges = <<>> /\ qdone = FALSE

DriverIdle == out = <<>> /\ lineDone = FALSE

BuildIdle == overflow_checks = FALSE /\ panicked = FALSE

BuilderIdle ==
    /\ key = <<>> /\ sorted = FALSE /\ vals = <<>>
    /\ num_errors = 0 /\ num_blanks = 0
    /\ output = <<>> /\ consumed = <<>> /\ result = "none"

MainIdle ==
    /\ args = [only_matching |-> FALSE, json |-> FALSE, color |-> "Auto", template |-> None]
    /\ is_tty = FALSE
    /\ template = <<>>
    /\ input = <<>>
    /\ broken = FALSE
    /\ pc = "idle"
    /\ status = -1
    /\ write_failed = FALSE
    /\ io_error = FALSE
    /\ io_failed = FALSE

-----------------------------------------------------------------------------
(* The match engine, called at any offset of a text, any number of times *)

InitEngine ==
    /\ fst \in SUBSET EngineRecords
    /\ text \in SeqsUpTo(EngineAlphabet, MaxTextLen)
    /\ keycache = <<>>
    /\ valuecache = <<>>
    /\ startcache = 0
    /\ callStart = 0
    /\ ret = None
    /\ called = FALSE
    /\ ScanIdle /\ QuoteIdle /\ DriverIdle /\ BuildIdle
    /\ MainIdle
    /\ BuilderIdle

LongestMatchAt ==
    \E start \in 0..Len(text) :
        LET r == longest_match_at(fst, scratch, text, start)
        IN  /\ keycache' = r.sc.key
            /\ valuecache' = r.sc.val
            /\ startcache' = r.sc.start
            /\ ret' = r.ret
            /\ callStart' = start
            /\ called' = TRUE
            /\ UNCHANGED <<fst, text, scanVars, quoteVars, driverVars, buildVars, mainVars, builderVars>>

NextEngine == LongestMatchAt

SpecEngine == InitEngine /\ [][NextEngine]_vars

-----------------------------------------------------------------------------
(* The boundary-aware scanner: FstMatches *)

\* RE_NONWORD of fstsed.rs:24, the class [, \t\a\n:="]
SeedClass == {44, 32, 9, 7, 10, 58, 61, 34}

\* RE_START.find_iter(haystack): ^ without the multi-line flag matches once, at 0
RE_START_find_iter(hay) == <<0>>

\* RE_NONWORD.find_iter(haystack): the offsets (0-based) of the seed bytes, ascending
RECURSIVE RE_NONWORD_from(_, _)
RE_NONWORD_from(hay, p) ==
    IF p >= Len(hay) THEN <<>>
    ELSE (IF hay[p + 1] \in SeedClass THEN <<p>> ELSE <<>>) \o RE_NONWORD_from(hay, p + 1)

RE_NONWORD_find_iter(hay) == RE_NONWORD_from(hay, 0)

\* FstMatches::new: the chain of the two seed streams, skip = 0
FstMatches_new(hay) ==
    [skip |-> 0, reiter |-> RE_START_find_iter(hay) \o RE_NONWORD_find_iter(hay)]

\* self.reiter.next()
reiter_next(re) == IF re = <<>> THEN None ELSE Some(Head(re))

reiter_rest(re) == IF re = <<>> THEN <<>> ELSE Tail(re)

\* fstsed.rs:115-126: pull seeds until longest_match_at succeeds at seed + skip;
\* probes lists the seed and the offset of each call of longest_match_at
RECURSIVE probe_loop(_, _, _, _, _, _)
probe_loop(f, hay, m, re, sk, sc) ==
    IF m = None THEN [m |-> None, reiter |-> re, skip |-> sk, sc |-> sc, probes |-> <<>>]
    ELSE LET probed(r) ==
                 IF r.ret = None
                 THEN [probe_loop(f, hay, reiter_next(re), reiter_rest(re), 1, r.sc)
                          EXCEPT !.probes = <<<<m[1], m[1] + sk>>>> \o @]
                 ELSE [m |-> m, reiter |-> re, skip |-> sk, sc |-> r.sc,
                       probes |-> <<<<m[1], m[1] + sk>>>>]
         IN  With(longest_match_at(f, sc, hay, m[1] + sk), probed)

\* fstsed.rs:139-144: discard the seeds at or before the end of the match
skip_consumed_none(re, sc) == re

RECURSIVE skip_consumed(_, _)
skip_consumed(re, sc) ==
    IF re # <<>> /\ Head(re) <= get_match_start(sc) + get_match_len(sc)
    THEN skip_consumed(Tail(re), sc)
    ELSE re

\* FstMatches::next: the item returned, the iterator and the scratch after it
FstMatches_next(f, hay, it, sc) ==
    LET found(p) ==
            IF p.m = None
            THEN [item |-> None, skip |-> p.skip, reiter |-> p.reiter, sc |-> p.sc,
                  probes |-> p.probes, dropped |-> <<>>]
            ELSE [item   |-> Some(get_match_start(p.sc)),
                  skip   |-> p.skip,
                  reiter |-> skip_consumed(p.reiter, p.sc),
                  sc     |-> p.sc,
                  probes |-> p.probes,
                  dropped |-> SubSeq(p.reiter, 1,
                                     Len(p.reiter) - Len(skip_consumed(p.reiter, p.sc)))]
    IN  With(probe_loop(f, hay, reiter_next(it.reiter), reiter_rest(it.reiter), it.skip, sc),
             found)

MaxHayLen == 5

ScanRecords ==
    { Rec(<<ByteA>>, <<40, 181>>),
      Rec(<<ByteA, ByteA>>, <<7>>),
      Rec(<<ByteA, ByteSpace, ByteA>>, <<40, 181, 47>>),
      Rec(<<ByteSpace, ByteA>>, <<40>>) }

ScanAlphabet == {ByteA, ByteSpace, ByteDash}

\* fsed.find_iter(haystack) on a new engine, then next() until it returns None
InitScan ==
    /\ fst \in SUBSET ScanRecords
    /\ haystack \in SeqsUpTo(ScanAlphabet, MaxHayLen)
    /\ keycache = <<>>
    /\ valuecache = <<>>
    /\ startcache = 0
    /\ skip = FstMatches_new(haystack).skip
    /\ reiter = FstMatches_new(haystack).reiter
    /\ yields = <<>>
    /\ exhausted = FALSE
    /\ probes = <<>>
    /\ dropped = <<>>
    /\ CallIdle /\ QuoteIdle /\ DriverIdle /\ BuildIdle
    /\ MainIdle
    /\ BuilderIdle

ScanNext ==
    /\ ~exhausted
    /\ LET r == FstMatches_next(fst, haystack, [skip |-> skip, reiter |-> reiter], scratch)
       IN  /\ skip' = r.skip
           /\ reiter' = r.reiter
           /\ keycache' = r.sc.key
           /\ valuecache' = r.sc.val
           /\ startcache' = r.sc.start
           /\ exhausted' = (r.item = None)
           /\ yields' = IF r.item = None THEN yields
                        ELSE Append(yields, <<r.item[1], get_match_len(r.sc)>>)
           /\ probes' = probes \o r.probes
           /\ dropped' = IF r.item = None THEN dropped ELSE Append(dropped, r.dropped)
    /\ UNCHANGED <<fst, haystack, callVars, quoteVars, driverVars, buildVars, mainVars, builderVars>>

NextScan == ScanNext

SpecScan == InitScan /\ [][NextScan]_vars

-----------------------------------------------------------------------------
(* The JSON quote scanner: JsonQuotes and jsonquotes_range_iter *)

\* usize::MAX, what 0 - 1 wraps to in a build without overflow checks.  It
\* stands for 2^64 - 1, which is beyond the integers TLC computes with; the
\* scanner only compares it with lastescape, an offset of the line.
USIZE_MAX == 2147483647

\* index - 1 on usize (jsonquotes.rs:32 and :44): <<>> is the overflow panic
usize_dec(index, oc) ==
    IF index = 0 THEN (IF oc THEN None ELSE Some(USIZE_MAX)) ELSE Some(index - 1)

\* JsonQuotes::next from offset pos with lastescape = le: the index returned,
\* the iterator after the call, and whether it panicked.
RECURSIVE JsonQuotes_next(_, _, _, _)
JsonQuotes_next(hay, pos, le, oc) ==
    IF pos >= Len(hay)
    THEN [item |-> None, pos |-> pos, le |-> le, panic |-> FALSE]
    ELSE IF hay[pos + 1] = ByteQuote
    THEN IF le > 0 /\ usize_dec(pos, oc) = None
         THEN [item |-> None, pos |-> pos, le |-> le, panic |-> TRUE]
         ELSE IF le > 0 /\ le = usize_dec(pos, oc)[1]
         THEN JsonQuotes_next(hay, pos + 1, 0, oc)
         ELSE [item |-> Some(pos), pos |-> pos + 1, le |-> 0, panic |-> FALSE]
    ELSE IF hay[pos + 1] = ByteBackslash
    THEN IF usize_dec(pos, oc) = None
         THEN [item |-> None, pos |-> pos, le |-> le, panic |-> TRUE]
         ELSE IF le = usize_dec(pos, oc)[1]
         THEN JsonQuotes_next(hay, pos + 1, 0, oc)
         ELSE JsonQuotes_next(hay, pos + 1, pos, oc)
    ELSE JsonQuotes_next(hay, pos + 1, le, oc)

\* jsonquotes_range_iter(haystack).next(): array_chunks::<2> pulls two indices
\* a, b and maps them to (a, b + 1); it returns None when either is missing.
range_of_open(a, b) == <<a, b>>

range_of(a, b) == <<a, b + 1>>

jsonquotes_range_next(hay, pos, le, oc) ==
    LET second(a, b) ==
            IF b.panic \/ b.item = None
            THEN [item |-> None, pos |-> b.pos, le |-> b.le, panic |-> b.panic]
            ELSE [item |-> Some(range_of(a.item[1], b.item[1])),
                  pos |-> b.pos, le |-> b.le, panic |-> FALSE]
        first(a) ==
            IF a.panic \/ a.item = None
            THEN [item |-> None, pos |-> a.pos, le |-> a.le, panic |-> a.panic]
            ELSE LET then(b) == second(a, b)
                 IN  With(JsonQuotes_next(hay, a.pos, a.le, oc), then)
    IN  With(JsonQuotes_next(hay, pos, le, oc), first)

MaxLineLen == 6

ByteN == 110

QuoteAlphabet == {ByteQuote, ByteBackslash, ByteN}

\* jsonquotes_range_iter(haystack), then next() until it returns None
InitQuotes ==
    /\ haystack \in SeqsUpTo(QuoteAlphabet, MaxLineLen)
    /\ overflow_checks \in BOOLEAN
    /\ panicked = FALSE
    /\ qiter = 0
    /\ lastescape = 0
    /\ ranges = <<>>
    /\ qdone = FALSE
    /\ fst = {} /\ keycache = <<>> /\ valuecache = <<>> /\ startcache = 0
    /\ skip = 0 /\ reiter = <<>> /\ yields = <<>> /\ exhausted = FALSE
    /\ probes = <<>> /\ dropped = <<>>
    /\ CallIdle /\ DriverIdle
    /\ MainIdle
    /\ BuilderIdle

RangeNext ==
    /\ ~qdone /\ ~panicked
    /\ LET r == jsonquotes_range_next(haystack, qiter, lastescape, overflow_checks)
       IN  /\ qiter' = r.pos
           /\ lastescape' = r.le
           /\ panicked' = r.panic
           /\ qdone' = (r.item = None /\ ~r.panic)
           /\ ranges' = IF r.item = None THEN ranges ELSE Append(ranges, r.item[1])
    /\ UNCHANGED <<engineVars, callVars, scanVars, driverVars, overflow_checks, mainVars, builderVars>>

NextQuotes == RangeNext

SpecQuotes == InitQuotes /\ [][NextQuotes]_vars

-----------------------------------------------------------------------------
(* The line drivers: process_line (plain mode), runjson (JSON mode) and
   run_onlymatching (only-matching mode) *)

\* The output stream: the bytes written so far, each with the offset of the
\* line it was copied from, and whether the output fails (the reader of the
\* pipe has gone, or the output answers with another error), in which case a
\* write of at least one byte returns an Err.
Stream(bytes, gone) == [buf |-> bytes, broken |-> gone]

\* out.write_all(&line[from..to]) (0-based, to exclusive) is an Err: a write
\* of no byte never fails
write_fails(o, from, to) == o.broken /\ to > from

\* out.write_all(&line[from..to]): the stream after the call
write_all(o, line, from, to) ==
    IF write_fails(o, from, to) THEN o
    ELSE [o EXCEPT !.buf = @ \o [i \in 1..(to - from) |-> <<line[from + i], from + i - 1>>]]

\* out.write_all(b"\n")
write_newline(o) ==
    IF o.broken THEN o ELSE [o EXCEPT !.buf = Append(@, <<ByteNewline, -1>>)]

\* RE_NONWORD.find(input) of main.rs:20, and re.find(input) of main.rs:131:
\* (?i-u)\W finds the first byte of line[pos..e) that is not in [A-Za-z0-9_]
RECURSIVE nonword_find(_, _, _)
nonword_find(line, pos, e) ==
    IF pos >= e THEN None
    ELSE IF line[pos + 1] \notin AsciiWord THEN Some(pos)
    ELSE nonword_find(line, pos + 1, e)

\* The loop `while !input.is_empty()` of main.rs:149-171 (runjson) and of
\* main.rs:201-223 (process_line), on input = line[pos..e): what is written,
\* the scratch left behind, and whether a write_all(..)? returned early.
RECURSIVE word_loop(_, _, _, _, _, _)
word_loop(f, sc, line, pos, e, o) ==
    IF pos >= e THEN [out |-> o, sc |-> sc, err |-> FALSE]
    ELSE LET matched(r) ==
                 IF r.ret = None
                 THEN LET nw == nonword_find(line, pos, e)
                      IN  IF nw # None
                          THEN IF write_fails(o, pos, nw[1] + 1)
                               THEN [out |-> o, sc |-> r.sc, err |-> TRUE]
                               ELSE word_loop(f, r.sc, line, nw[1] + 1, e,
                                              write_all(o, line, pos, nw[1] + 1))
                          ELSE [out |-> write_all(o, line, pos, e), sc |-> r.sc,
                                err |-> write_fails(o, pos, e)]
                 ELSE word_loop(f, r.sc, line, pos + r.ret[1], e, o)
         IN  With(longest_match(f, sc, SubSeq(line, pos + 1, e)), matched)

\* main.rs:191-199: the loop over fsed.find_iter(input).  input[_lastpos..=m]
\* panics when _lastpos > m + 1 or m >= len.
RECURSIVE find_iter_loop(_, _, _, _, _, _)
find_iter_loop(f, sc, line, it, lastpos, o) ==
    LET body(r) ==
            IF r.item = None THEN [out |-> o, sc |-> r.sc, panic |-> FALSE, err |-> FALSE]
            ELSE IF lastpos > r.item[1] + 1 \/ r.item[1] >= Len(line)
            THEN [out |-> o, sc |-> r.sc, panic |-> TRUE, err |-> FALSE]
            ELSE IF write_fails(o, lastpos, r.item[1] + 1)
            THEN [out |-> o, sc |-> r.sc, panic |-> FALSE, err |-> TRUE]
            ELSE find_iter_loop(f, r.sc, line, [skip |-> r.skip, reiter |-> r.reiter],
                                r.item[1] + get_match_len(r.sc),
                                write_all(o, line, lastpos, r.item[1] + 1))
    IN  With(FstMatches_next(f, line, it, sc), body)

\* process_line(input, fsed, out)
process_line(f, sc, line, o) ==
    LET rest(a) ==
            IF a.panic \/ a.err THEN a
            ELSE LET done(b) == [out |-> b.out, sc |-> b.sc, panic |-> FALSE, err |-> b.err]
                 IN  With(word_loop(f, a.sc, line, 0, Len(line), a.out), done)
    IN  With(find_iter_loop(f, sc, line, FstMatches_new(line), 0, o), rest)

\* main.rs:144-176: the loop over jsonquotes_range_iter(lineslice), the tail
\* and the newline
json_lastpos(start, end) == end

RECURSIVE json_ranges_loop(_, _, _, _, _, _, _, _)
json_ranges_loop(f, sc, line, pos, le, oc, lastpos, o) ==
    LET body(r) ==
            IF r.panic THEN [out |-> o, sc |-> sc, panic |-> TRUE, err |-> FALSE]
            ELSE IF r.item = None
            THEN IF write_fails(o, lastpos, Len(line))
                 THEN [out |-> o, sc |-> sc, panic |-> FALSE, err |-> TRUE]
                 ELSE [out |-> write_newline(write_all(o, line, lastpos, Len(line))),
                       sc |-> sc, panic |-> FALSE, err |-> o.broken]
            ELSE LET start == r.item[1][1]
                     end == r.item[1][2]
                     string(w) ==
                         IF w.err THEN [out |-> w.out, sc |-> w.sc, panic |-> FALSE, err |-> TRUE]
                         ELSE json_ranges_loop(f, w.sc, line, r.pos, r.le, oc,
                                               json_lastpos(start, end), w.out)
                 IN  IF write_fails(o, lastpos, start)
                     THEN [out |-> o, sc |-> sc, panic |-> FALSE, err |-> TRUE]
                     ELSE With(word_loop(f, sc, line, start, end,
                                         write_all(o, line, lastpos, start)), string)
    IN  With(jsonquotes_range_next(line, pos, le, oc), body)

\* runjson, for one line of reader.byte_lines() (the terminator is stripped)
runjson_line(f, sc, line, oc, o) == json_ranges_loop(f, sc, line, 0, 0, oc, 0, o)

DriverRecords ==
    { Rec(<<ByteA>>, <<40, 181>>),
      Rec(<<ByteA, ByteSpace, ByteA>>, <<40, 181, 47>>) }

PlainAlphabet == {ByteA, ByteSpace, ByteDash}

\* for_byte_line_with_terminator: a line ends with its \n, or is the last
\* line of an input that does not end with one; it is never empty
PlainLines ==
    {l \o t : l \in SeqsUpTo(PlainAlphabet, MaxLineLen - 1), t \in {<<>>, <<ByteNewline>>}}
        \ {<<>>}

InitPlain ==
    /\ fst \in SUBSET DriverRecords
    /\ haystack \in PlainLines
    /\ keycache = <<>> /\ valuecache = <<>> /\ startcache = 0
    /\ out = <<>>
    /\ lineDone = FALSE
    /\ CallIdle /\ QuoteIdle /\ BuildIdle
    /\ skip = 0 /\ reiter = <<>> /\ yields = <<>> /\ exhausted = FALSE
    /\ probes = <<>> /\ dropped = <<>>
    /\ MainIdle
    /\ BuilderIdle

ProcessLine ==
    /\ ~lineDone
    /\ LET r == process_line(fst, scratch, haystack, Stream(out, FALSE))
       IN  /\ out' = r.out.buf
           /\ keycache' = r.sc.key
           /\ valuecache' = r.sc.val
           /\ startcache' = r.sc.start
           /\ panicked' = r.panic
    /\ lineDone' = TRUE
    /\ UNCHANGED <<fst, haystack, callVars, skip, reiter, yields, exhausted, probes, dropped,
                   quoteVars,
                   overflow_checks, mainVars, builderVars>>

NextPlain == ProcessLine

SpecPlain == InitPlain /\ [][NextPlain]_vars

MaxJsonLen == 5

JsonAlphabet == {ByteQuote, ByteBackslash, ByteA, ByteSpace}

InitJson ==
    /\ fst \in SUBSET DriverRecords
    /\ haystack \in SeqsUpTo(JsonAlphabet, MaxJsonLen)
    /\ overflow_checks \in BOOLEAN
    /\ panicked = FALSE
    /\ keycache = <<>> /\ valuecache = <<>> /\ startcache = 0
    /\ out = <<>>
    /\ lineDone = FALSE
    /\ CallIdle /\ QuoteIdle
    /\ skip = 0 /\ reiter = <<>> /\ yields = <<>> /\ exhausted = FALSE
    /\ probes = <<>> /\ dropped = <<>>
    /\ MainIdle
    /\ BuilderIdle

RunJsonLine ==
    /\ ~lineDone
    /\ LET r == runjson_line(fst, scratch, haystack, overflow_checks, Stream(out, FALSE))
       IN  /\ out' = r.out.buf
           /\ keycache' = r.sc.key
           /\ valuecache' = r.sc.val
           /\ startcache' = r.sc.start
           /\ panicked' = r.panic
    /\ lineDone' = TRUE
    /\ UNCHANGED <<fst, haystack, callVars, scanVars, quoteVars, overflow_checks, mainVars, builderVars>>

NextJson == RunJsonLine

SpecJson == InitJson /\ [][NextJson]_vars

\* The loop `while !input.is_empty()` of run_onlymatching (main.rs:302-324)
\* on input = line[pos..]: what is written, the scratch, and whether a
\* write_all(..)? returned early.
RECURSIVE only_loop(_, _, _, _, _)
only_loop(f, sc, line, pos, o) ==
    IF pos >= Len(line) THEN [out |-> o, sc |-> sc, panic |-> FALSE, err |-> FALSE]
    ELSE LET matched(r) ==
                 IF r.ret = None
                 THEN LET nw == nonword_find(line, pos, Len(line))
                      IN  IF nw # None
                          THEN only_loop(f, r.sc, line, nw[1] + 1, o)
                          ELSE [out |-> write_all(o, line, pos, Len(line)), sc |-> r.sc,
                                panic |-> FALSE, err |-> write_fails(o, pos, Len(line))]
                 ELSE IF o.broken
                      THEN [out |-> o, sc |-> r.sc, panic |-> FALSE, err |-> TRUE]
                      ELSE only_loop(f, r.sc, line, pos + r.ret[1], write_newline(o))
         IN  With(longest_match(f, sc, Suffix(line, pos + 1)), matched)

\* run_onlymatching, for one line of reader.byte_lines()
run_onlymatching_line(f, sc, line, o) == only_loop(f, sc, line, 0, o)

InitOnly ==
    /\ fst \in SUBSET DriverRecords
    /\ haystack \in SeqsUpTo(PlainAlphabet, MaxLineLen)
    /\ keycache = <<>> /\ valuecache = <<>> /\ startcache = 0
    /\ out = <<>>
    /\ lineDone = FALSE
    /\ CallIdle /\ QuoteIdle /\ BuildIdle
    /\ skip = 0 /\ reiter = <<>> /\ yields = <<>> /\ exhausted = FALSE
    /\ probes = <<>> /\ dropped = <<>>
    /\ MainIdle
    /\ BuilderIdle

RunOnlyMatchingLine ==
    /\ ~lineDone
    /\ LET r == run_onlymatching_line(fst, scratch, haystack, Stream(out, FALSE))
       IN  /\ out' = r.out.buf
           /\ keycache' = r.sc.key
           /\ valuecache' = r.sc.val
           /\ startcache' = r.sc.start
           /\ panicked' = r.panic
    /\ lineDone' = TRUE
    /\ UNCHANGED <<fst, haystack, callVars, skip, reiter, yields, exhausted, probes, dropped,
                   quoteVars,
                   overflow_checks, mainVars, builderVars>>

NextOnly == RunOnlyMatchingLine

SpecOnly == InitOnly /\ [][NextOnly]_vars

-----------------------------------------------------------------------------
(* The loop `while !input.is_empty()` of process_line, one iteration at a
   time, on an FST that may hold a record with the empty key and on lines
   that may hold 0x00 bytes and bytes of a stored value.  text is the slice
   `input` of the loop, a suffix of the line. *)

MaxLoopLen == 3

\* a value with a 0x00 byte in it, as the frames of zstd have
LoopValue == <<40, SENTINEL, 88>>

LoopRecords == { Rec(<<>>, LoopValue), Rec(<<ByteA>>, LoopValue) }

LoopAlphabet == {SENTINEL, ByteA, ByteSpace, 40}

InitLoop ==
    /\ fst \in SUBSET LoopRecords
    /\ haystack \in SeqsUpTo(LoopAlphabet, MaxLoopLen)
    /\ text = haystack
    /\ callStart = 0 /\ ret = None /\ called = FALSE
    /\ keycache = <<>> /\ valuecache = <<>> /\ startcache = 0
    /\ out = <<>>
    /\ lineDone = FALSE
    /\ QuoteIdle /\ BuildIdle
    /\ skip = 0 /\ reiter = <<>> /\ yields = <<>> /\ exhausted = FALSE
    /\ probes = <<>> /\ dropped = <<>>
    /\ MainIdle
    /\ BuilderIdle

\* main.rs:201: the test of the loop is false, process_line returns
LoopExit ==
    /\ ~lineDone
    /\ text = <<>>
    /\ lineDone' = TRUE
    /\ UNCHANGED <<engineVars, callVars, scanVars, quoteVars, out, buildVars,
                   mainVars, builderVars>>

\* main.rs:202-222: one iteration of the loop
LoopIteration ==
    /\ ~lineDone
    /\ text # <<>>
    /\ \E r \in {longest_match(fst, scratch, text)} :
       LET pos == Len(haystack) - Len(text)
           nw  == nonword_find(haystack, pos, Len(haystack))
           o   == Stream(out, FALSE)
       IN  /\ ret' = r.ret
           /\ keycache' = r.sc.key
           /\ valuecache' = r.sc.val
           /\ startcache' = r.sc.start
           /\ IF r.ret # None
              THEN /\ text' = Suffix(text, r.ret[1] + 1)
                   /\ UNCHANGED <<out, lineDone>>
              ELSE IF nw # None
              THEN /\ out' = write_all(o, haystack, pos, nw[1] + 1).buf
                   /\ text' = Suffix(haystack, nw[1] + 2)
                   /\ UNCHANGED lineDone
              ELSE /\ out' = write_all(o, haystack, pos, Len(haystack)).buf
                   /\ lineDone' = TRUE
                   /\ UNCHANGED text
    /\ called' = TRUE
    /\ UNCHANGED <<fst, callStart, scanVars, quoteVars, buildVars, mainVars, builderVars>>

NextLoop == LoopExit \/ LoopIteration

SpecLoop == InitLoop /\ [][NextLoop]_vars

\* the loop is sequential code: an iteration that can run does run
SpecLoopFair == SpecLoop /\ WF_vars(NextLoop)

-----------------------------------------------------------------------------
(* The process: main, the run mode it dispatches to, the output pipe *)

\* main.rs:99-109: the color mode main computes from --color
colormode(a, tty) ==
    IF a.color = "Auto" THEN (IF tty THEN "Always" ELSE "Never") ELSE a.color

\* fstsed.rs:181: "<{key}|{value}>"
DEFAULT_TEMPLATE ==
    <<60, 123, 107, 101, 121, 125, 124, 123, 118, 97, 108, 117, 101, 125, 62>>

\* fstsed.rs:186: "\x1b[1;31m" and "\x1b[0;0m"
ANSI_RED == <<27, 91, 49, 59, 51, 49, 109>>

ANSI_RESET == <<27, 91, 48, 59, 48, 109>>

\* FstSed::new(fstpath, user_template, color): the template of the engine
FstSed_new(user_template, color) ==
    LET t == IF user_template = None THEN DEFAULT_TEMPLATE ELSE user_template[1]
    IN  IF color = "Always" THEN ANSI_RED \o t \o ANSI_RESET ELSE t

\* main.rs:112-118: the run function main calls
dispatch(a) ==
    IF a.only_matching THEN "run_onlymatching"
    ELSE IF a.json THEN "runjson"
    ELSE "runnew"

\* the color each run function hands to FstSed::new (main.rs:133, 232, 294)
engine_color(mode, cm) == cm

MaxLines == 2

MaxMainLineLen == 1

MainAlphabet == {ByteA, ByteSpace}

\* "{key}"
UserTemplates == {None, Some(<<123, 107, 101, 121, 125>>)}

InitMain ==
    /\ args \in [only_matching : BOOLEAN, json : BOOLEAN,
                 color : {"Always", "Never", "Auto"}, template : UserTemplates]
    /\ is_tty \in BOOLEAN
    /\ fst \in {{}, {Rec(<<ByteA>>, <<40, 181>>)}}
    /\ input \in SeqsUpTo(SeqsUpTo(MainAlphabet, MaxMainLineLen), MaxLines)
    /\ template = <<>>
    /\ broken = FALSE
    /\ pc = "main"
    /\ status = -1
    /\ write_failed = FALSE
    /\ io_error = FALSE
    /\ io_failed = FALSE
    /\ keycache = <<>> /\ valuecache = <<>> /\ startcache = 0
    /\ haystack = <<>>
    /\ out = <<>> /\ lineDone = FALSE
    /\ skip = 0 /\ reiter = <<>> /\ yields = <<>> /\ exhausted = FALSE
    /\ probes = <<>> /\ dropped = <<>>
    /\ CallIdle /\ QuoteIdle /\ BuildIdle
    /\ BuilderIdle

\* main up to the loop of the run function: the engine is constructed
main_start ==
    /\ pc = "main"
    /\ template' = FstSed_new(args.template, engine_color(dispatch(args), colormode(args, is_tty)))
    /\ pc' = "run"
    /\ UNCHANGED <<engineVars, callVars, scanVars, quoteVars, driverVars, buildVars,
                   args, is_tty, input, broken, status, write_failed, io_error, io_failed,
                   builderVars>>

\* the reader of the output pipe exits
close_pipe ==
    /\ pc = "run"
    /\ ~broken
    /\ ~io_error
    /\ broken' = TRUE
    /\ UNCHANGED <<engineVars, callVars, scanVars, quoteVars, driverVars, buildVars,
                   args, is_tty, template, input, pc, status, write_failed, io_error,
                   io_failed, builderVars>>

\* the output starts to answer writes with an error other than broken pipe
device_fails ==
    /\ pc = "run"
    /\ ~broken
    /\ ~io_error
    /\ io_error' = TRUE
    /\ UNCHANGED <<engineVars, callVars, scanVars, quoteVars, driverVars, buildVars,
                   args, is_tty, template, input, broken, pc, status, write_failed,
                   io_failed, builderVars>>

\* the output takes writes again
device_recovers ==
    /\ pc = "run"
    /\ io_error
    /\ io_error' = FALSE
    /\ UNCHANGED <<engineVars, callVars, scanVars, quoteVars, driverVars, buildVars,
                   args, is_tty, template, input, broken, pc, status, write_failed,
                   io_failed, builderVars>>

\* main.rs:119-125: the status main ends with on the Err of a run function:
\* exit(0) when it is a broken pipe, else the Err is returned from main
exit_status(broken_pipe) == IF broken_pipe THEN 0 ELSE 1

\* one line of a run function whose writes are followed by `?`
\* (run_onlymatching, runjson): an Err leaves the loop and the function, and
\* main exits with 0 when it is a broken pipe (main.rs:119-122), else with
\* the Err; a panic ends the process with status 101.
line_step(r) ==
    /\ out' = r.out.buf
    /\ keycache' = r.sc.key
    /\ valuecache' = r.sc.val
    /\ startcache' = r.sc.start
    /\ panicked' = r.panic
    /\ write_failed' = (write_failed \/ (r.err /\ broken))
    /\ io_failed' = (io_failed \/ (r.err /\ ~broken))
    /\ input' = Tail(input)
    /\ pc' = IF r.panic \/ r.err THEN "exit" ELSE "run"
    /\ status' = IF r.panic THEN 101 ELSE IF r.err THEN exit_status(broken) ELSE status
    /\ UNCHANGED <<fst, callVars, scanVars, quoteVars, lineDone, overflow_checks,
                   args, is_tty, template, broken, io_error, builderVars>>

run_onlymatching_step ==
    /\ pc = "run" /\ dispatch(args) = "run_onlymatching"
    /\ input # <<>>
    /\ line_step(run_onlymatching_line(fst, scratch, Head(input),
                                       Stream(out, broken \/ io_error)))

runjson_step ==
    /\ pc = "run" /\ dispatch(args) = "runjson"
    /\ input # <<>>
    /\ line_step(runjson_line(fst, scratch, Head(input), overflow_checks,
                              Stream(out, broken \/ io_error)))

\* runnew (main.rs:235-238): one line with its terminator; the closure drops
\* the Result of process_line and returns Ok(true), so the loop goes on
runnew_step ==
    /\ pc = "run" /\ dispatch(args) = "runnew"
    /\ input # <<>>
    /\ LET r == process_line(fst, scratch, Append(Head(input), ByteNewline),
                             Stream(out, broken \/ io_error))
       IN  /\ out' = r.out.buf
           /\ keycache' = r.sc.key
           /\ valuecache' = r.sc.val
           /\ startcache' = r.sc.start
           /\ panicked' = r.panic
           /\ write_failed' = (write_failed \/ (r.err /\ broken))
           /\ io_failed' = (io_failed \/ (r.err /\ ~broken))
           /\ pc' = IF r.panic THEN "exit" ELSE "run"
           /\ status' = IF r.panic THEN 101 ELSE status
    /\ input' = Tail(input)
    /\ UNCHANGED <<fst, callVars, scanVars, quoteVars, lineDone, overflow_checks,
                   args, is_tty, template, broken, io_error, builderVars>>

\* the end of the input: out.flush()? and Ok(()), or Err(BrokenPipe) and
\* exit(0), or another Err, which main returns (main.rs:119-125)
flush_exit ==
    /\ pc = "run"
    /\ input = <<>>
    /\ pc' = "exit"
    /\ status' = IF io_error THEN exit_status(FALSE) ELSE 0
    /\ UNCHANGED <<engineVars, callVars, scanVars, quoteVars, driverVars, buildVars,
                   args, is_tty, template, input, broken, write_failed, io_error,
                   io_failed, builderVars>>

NextMain ==
    \/ main_start
    \/ close_pipe
    \/ device_fails
    \/ device_recovers
    \/ run_onlymatching_step
    \/ runjson_step
    \/ runnew_step
    \/ flush_exit

SpecMain == InitMain /\ [][NextMain]_vars

-----------------------------------------------------------------------------
(* The builder: build_fstsed *)

\* The value of a hexadecimal digit, -1 for another byte
HexVal(b) ==
    IF b \in 48..57 THEN b - 48
    ELSE IF b \in 97..102 THEN b - 87
    ELSE IF b \in 65..70 THEN b - 55
    ELSE -1

\* The UTF-8 encoding of the scalar value cp < 0x10000
to_utf8(cp) ==
    IF cp < 128 THEN <<cp>>
    ELSE IF cp < 2048 THEN <<192 + (cp \div 64), 128 + (cp % 64)>>
    ELSE <<224 + (cp \div 4096), 128 + ((cp \div 64) % 64), 128 + (cp % 64)>>

\* The byte a one-letter escape of a JSON string stands for: " \ / b f n r t
SimpleEscape(e) ==
    CASE e = 34 -> 34 [] e = 92 -> 92 [] e = 47 -> 47 [] e = 98 -> 8
      [] e = 102 -> 12 [] e = 110 -> 10 [] e = 114 -> 13 [] e = 116 -> 9
      [] OTHER -> -1

\* serde_json reading the characters of a string, from offset pos (after the
\* opening quote): the string the text stands for, as str::as_bytes() gives it,
\* and the offset after the closing quote.  \uXXXX stands for the scalar
\* value XXXX (a surrogate, which needs a second escape, is refused here).
RECURSIVE string_chars(_, _, _)
string_chars(line, pos, acc) ==
    IF pos >= Len(line) THEN [ok |-> FALSE, s |-> acc, pos |-> pos]
    ELSE IF line[pos + 1] = ByteQuote THEN [ok |-> TRUE, s |-> acc, pos |-> pos + 1]
    ELSE IF line[pos + 1] = ByteBackslash
    THEN IF pos + 1 >= Len(line) THEN [ok |-> FALSE, s |-> acc, pos |-> pos]
         ELSE IF SimpleEscape(line[pos + 2]) >= 0
         THEN string_chars(line, pos + 2, Append(acc, SimpleEscape(line[pos + 2])))
         ELSE IF /\ line[pos + 2] = 117
                 /\ pos + 6 <= Len(line)
                 /\ \A i \in 3..6 : HexVal(line[pos + i]) >= 0
         THEN LET cp == HexVal(line[pos + 3]) * 4096 + HexVal(line[pos + 4]) * 256
                        + HexVal(line[pos + 5]) * 16 + HexVal(line[pos + 6])
              IN  IF cp \in 55296..57343 THEN [ok |-> FALSE, s |-> acc, pos |-> pos]
                  ELSE string_chars(line, pos + 6, acc \o to_utf8(cp))
         ELSE [ok |-> FALSE, s |-> acc, pos |-> pos]
    ELSE IF line[pos + 1] < 32 THEN [ok |-> FALSE, s |-> acc, pos |-> pos]
    ELSE string_chars(line, pos + 1, Append(acc, line[pos + 1]))

\* The digits of a number, from offset pos
RECURSIVE digits_end(_, _)
digits_end(line, pos) ==
    IF pos < Len(line) /\ line[pos + 1] \in 48..57 THEN digits_end(line, pos + 1) ELSE pos

Null == [kind |-> "Null"]

\* serde_json reading a value at offset pos: a string, or a number without
\* sign, fraction or exponent
parse_value(line, pos) ==
    IF pos >= Len(line) THEN [ok |-> FALSE, v |-> Null, pos |-> pos]
    ELSE IF line[pos + 1] = ByteQuote
    THEN LET r == string_chars(line, pos + 1, <<>>)
         IN  [ok |-> r.ok, v |-> [kind |-> "String", s |-> r.s], pos |-> r.pos]
    ELSE IF line[pos + 1] \in 49..57
    THEN [ok |-> TRUE, v |-> [kind |-> "Number"], pos |-> digits_end(line, pos)]
    ELSE IF line[pos + 1] = 48
    THEN [ok |-> TRUE, v |-> [kind |-> "Number"], pos |-> pos + 1]
    ELSE [ok |-> FALSE, v |-> Null, pos |-> pos]

\* serde_json reading {"name":value} at offset 0
parse_object(line) ==
    IF Len(line) < 2 \/ line[2] # ByteQuote THEN [ok |-> FALSE, v |-> Null, pos |-> 0]
    ELSE LET n == string_chars(line, 2, <<>>)
         IN  IF ~n.ok \/ n.pos >= Len(line) \/ line[n.pos + 1] # 58
             THEN [ok |-> FALSE, v |-> Null, pos |-> 0]
             ELSE LET m == parse_value(line, n.pos + 1)
                  IN  IF ~m.ok \/ m.pos >= Len(line) \/ line[m.pos + 1] # 125
                      THEN [ok |-> FALSE, v |-> Null, pos |-> 0]
                      ELSE [ok |-> TRUE,
                            v |-> [kind |-> "Object", name |-> n.s, value |-> m.v],
                            pos |-> m.pos + 1]

\* serde_json::from_slice(line).unwrap_or_default() (build.rs:42), for the
\* lines of the model: an object of one member, a string or a number, with
\* nothing after it; anything else is not JSON and gives Value::default()
from_slice(line) ==
    LET r == IF line # <<>> /\ line[1] = 123 THEN parse_object(line)
             ELSE parse_value(line, 0)
    IN  IF r.ok /\ r.pos = Len(line) THEN r.v ELSE Null

\* Value::get(key)
Value_get(v, k) ==
    IF v.kind = "Object" /\ v.name = k THEN Some(v.value) ELSE None

\* Value::pointer(key), for a pointer of one reference token without ~
Value_pointer(v, k) ==
    IF k = <<>> THEN Some(v)
    ELSE IF Head(k) # 47 THEN None
    ELSE Value_get(v, Tail(k))

\* Value::as_str
Value_as_str(v) == IF v.kind = "String" THEN Some(v.s) ELSE None

\* build.rs:30-34
value_extractor(k, jsonline) ==
    LET found == IF k # <<>> /\ Head(k) = 47 THEN Value_pointer(jsonline, k)
                 ELSE Value_get(jsonline, k)
    IN  IF found = None THEN None ELSE Value_as_str(found[1])

\* copy_encode(line, &mut tuple, 3) on a short line: the zstd frame of one raw
\* block (magic number, frame header with the window descriptor, block header
\* of three bytes holding the size, the bytes)
ZSTD(line) ==
    <<40, 181, 47, 253, 0, 88>>
        \o <<(Len(line) * 8 + 1) % 256, ((Len(line) * 8 + 1) \div 256) % 256,
             (Len(line) * 8 + 1) \div 65536>>
        \o line

\* build.rs:45-53: the key, the sentinel, the compressed line
make_tuple(keyvalue, line) == keyvalue \o <<SENTINEL>> \o ZSTD(line)

\* vals.push(tuple) (build.rs:57)
push_dropped(v, tuple) == v

push(v, tuple) == Append(v, tuple)

\* The closure of for_byte_line (build.rs:37-63) on one line; encoded is
\* whether copy_encode returns Ok.  b is the builder's vals, num_errors and
\* num_blanks.
closure(b, k, line, encoded) ==
    IF line = <<>> THEN [b EXCEPT !.num_blanks = @ + 1]
    ELSE LET keyvalue == value_extractor(k, from_slice(line))
         IN  IF keyvalue # None
             THEN IF ~encoded THEN [b EXCEPT !.num_errors = @ + 1]
                  ELSE [b EXCEPT !.vals = push(@, make_tuple(keyvalue[1], line))]
             ELSE [b EXCEPT !.num_errors = @ + 1]

\* the order of Vec<u8>: a < b
RECURSIVE LexLess(_, _)
LexLess(a, b) ==
    IF b = <<>> THEN FALSE
    ELSE IF a = <<>> THEN TRUE
    ELSE IF Head(a) # Head(b) THEN Head(a) < Head(b)
    ELSE LexLess(Tail(a), Tail(b))

RECURSIVE sort_insert(_, _)
sort_insert(v, t) ==
    IF v = <<>> THEN <<t>>
    ELSE IF LexLess(t, Head(v)) THEN <<t>> \o v
    ELSE <<Head(v)>> \o sort_insert(Tail(v), t)

\* vals.sort_unstable() (build.rs:73)
RECURSIVE sort_unstable(_)
sort_unstable(v) ==
    IF v = <<>> THEN <<>> ELSE sort_insert(sort_unstable(Tail(v)), Head(v))

\* build.rs:82-84: set.insert(line) of each tuple in turn; SetBuilder::insert
\* is an Err, and the expect a panic, at the first tuple that is less than
\* the one before it (a tuple equal to the one before it is taken).  The
\* number of tuples inserted before that.
RECURSIVE inserted(_, _)
inserted(v, n) ==
    IF n >= Len(v) THEN n
    ELSE IF n >= 1 /\ LexLess(v[n + 1], v[n]) THEN n
    ELSE inserted(v, n + 1)

MaxBuildLines == 2

\* The texts of the key strings of the input lines: the empty string, a, aa,
\* strings with the escape \u0000, and \u0061, another text of the string a
KeyTexts ==
    { <<>>,
      <<ByteA>>,
      <<ByteA, ByteA>>,
      <<ByteBackslash, 117, 48, 48, 48, 48>>,
      <<ByteA, ByteBackslash, 117, 48, 48, 48, 48>>,
      <<ByteBackslash, 117, 48, 48, 54, 49>> }

\* The lines of the input: {"k":"..."} for each key string, {"x":"a"},
\* {"k":1}, a line that is not JSON, and the empty line
BuildLines ==
    {<<123, 34, 107, 34, 58, 34>> \o b \o <<34, 125>> : b \in KeyTexts}
        \cup { <<123, 34, 120, 34, 58, 34, 97, 34, 125>>,
               <<123, 34, 107, 34, 58, 49, 125>>,
               <<ByteA>>,
               <<>> }

\* What a file at the output path holds before the build
OldFile == <<Rec(<<ByteA>>, ZSTD(<<ByteA>>))>>

InitBuild ==
    /\ key \in {<<107>>, <<47, 107>>}
    /\ sorted \in BOOLEAN
    /\ input \in SeqsUpTo(BuildLines, MaxBuildLines)
    /\ output \in {<<>>, <<OldFile>>}
    /\ vals = <<>>
    /\ num_errors = 0
    /\ num_blanks = 0
    /\ consumed = <<>>
    /\ result = "none"
    /\ args = [only_matching |-> FALSE, json |-> FALSE, color |-> "Auto", template |-> None]
    /\ is_tty = FALSE /\ template = <<>> /\ broken = FALSE
    /\ pc = "idle" /\ status = -1 /\ write_failed = FALSE
    /\ io_error = FALSE /\ io_failed = FALSE
    /\ fst = {} /\ keycache = <<>> /\ valuecache = <<>> /\ startcache = 0
    /\ CallIdle /\ ScanIdle /\ QuoteIdle /\ DriverIdle /\ BuildIdle

\* for_byte_line hands the next line, without its terminator, to the closure
ReadLine ==
    /\ result = "none"
    /\ input # <<>>
    /\ \E encoded \in BOOLEAN :
        LET line == Head(input)
            b == closure([vals |-> vals, num_errors |-> num_errors, num_blanks |-> num_blanks],
                         key, line, encoded)
        IN  /\ encoded \/ (line # <<>> /\ value_extractor(key, from_slice(line)) # None)
            /\ vals' = b.vals
            /\ num_errors' = b.num_errors
            /\ num_blanks' = b.num_blanks
            /\ consumed' = Append(consumed, <<line, encoded>>)
    /\ input' = Tail(input)
    /\ UNCHANGED <<engineVars, callVars, scanVars, quoteVars, driverVars, buildVars,
                   args, is_tty, template, broken, pc, status, write_failed, io_error, io_failed,
                   key, sorted, output, result>>

\* build.rs:65-87, after the last line: the sort, File::create (which opens
\* the path for writing and truncates a file that is there, or is an Err),
\* the insertions and finish
Finish ==
    /\ result = "none"
    /\ input = <<>>
    /\ vals' = IF sorted THEN vals ELSE sort_unstable(vals)
    /\ \E created \in BOOLEAN :
        IF ~created THEN result' = "Err" /\ output' = output
        ELSE /\ output' = <<SubSeq(vals', 1, inserted(vals', 0))>>
             /\ result' = IF inserted(vals', 0) = Len(vals') THEN "Ok" ELSE "panic"
    /\ UNCHANGED <<engineVars, callVars, scanVars, quoteVars, driverVars, buildVars,
                   mainVars, key, sorted, num_errors, num_blanks, consumed>>

NextBuild == ReadLine \/ Finish

SpecBuild == InitBuild /\ [][NextBuild]_vars


-----------------------------------------------------------------------------
(* Claims about the match engine (checked under SpecEngine) *)

\* The key part K of a record K \o <<0>> \o C: the bytes before its first 0x00
RECURSIVE KeyOf(_)
KeyOf(r) == IF r = <<>> \/ Head(r) = SENTINEL THEN <<>> ELSE <<Head(r)>> \o KeyOf(Tail(r))

StoredKeys(f) == {KeyOf(r) : r \in f}

HasNoNul(s) == \A i \in 1..Len(s) : s[i] # SENTINEL

SetMax(S) == CHOOSE x \in S : \A y \in S : y <= x

\* The bytes after position p of txt begin with a non-word character: an
\* ASCII byte outside [A-Za-z0-9_], or the UTF-8 encoding of a scalar value
\* that is not a word character (of the two-byte encodings, U+00D7 here).
NonWordCharAfter(txt, p) ==
    /\ p < Len(txt)
    /\ \/ txt[p + 1] < 128 /\ txt[p + 1] \notin AsciiWord
       \/ p + 1 < Len(txt) /\ <<txt[p + 1], txt[p + 2]>> = <<ByteC3, Byte97>>

\* The lengths n >= 1 of the stored keys that are a prefix of txt[start..] and
\* are followed by the end of the slice or by a byte for which Bnd holds.
QualifyingLens(f, txt, start, Bnd(_, _)) ==
    {n \in 1..(Len(txt) - start) :
        /\ SubSeq(txt, start + 1, start + n) \in StoredKeys(f)
        /\ (start + n = Len(txt) \/ Bnd(txt, start + n))}

LongestOf(S) == IF S = {} THEN None ELSE Some(SetMax(S))

AsciiBoundaryByteAfter(txt, p) == p < Len(txt) /\ txt[p + 1] \notin AsciiWord

C3_RightBoundary ==
    called =>
        /\ ret # None =>
              \/ callStart + ret[1] = Len(text)
              \/ text[callStart + ret[1] + 1] \notin AsciiWord
        /\ ( /\ <<ByteA>> \in StoredKeys(fst)
             /\ <<ByteA, ByteA>> \notin StoredKeys(fst)
             /\ text = <<ByteA, ByteA>>
             /\ callStart = 0 ) => ret = None

\* a match that is followed by a byte of the text
C3_Witness ==
    /\ called /\ ret # None
    /\ callStart + ret[1] < Len(text)

\* C6: after Some(n), get_match_len() = n, key_buf = text[start..start+n],
\* get_match_start() = start and key_buf \o <<0>> \o value_buf is a stored record.
C6_ScratchAfterSuccess ==
    (called /\ ret # None) =>
        /\ get_match_len(scratch) = ret[1]
        /\ keycache = SubSeq(text, callStart + 1, callStart + ret[1])
        /\ get_match_start(scratch) = callStart
        /\ Rec(keycache, valuecache) \in fst
        /\ \A r \in fst : IsPrefix(Append(keycache, SENTINEL), r) => r = Rec(keycache, valuecache)

\* the walk accepted the shorter key "a" before it accepted "a a", at a start
\* other than 0
C6_Witness ==
    /\ called /\ ret = Some(3) /\ callStart > 0
    /\ <<ByteA>> \in StoredKeys(fst)
    /\ keycache = <<ByteA, ByteSpace, ByteA>>

\* C7: after None, the scratch is cleared.
C7_ScratchClearedOnFailure ==
    (called /\ ret = None) => scratch = clear

\* The lengths n >= 1 at which a stored key ends in txt[start..]: the
\* candidates of the walk
CandidateLens(f, txt, start) ==
    {n \in 1..(Len(txt) - start) : SubSeq(txt, start + 1, start + n) \in StoredKeys(f)}

\* The acceptance of the candidates of the last call goes by the boundary
\* class Bnd: a candidate passes the check of the walk iff it ends the slice
\* or Bnd holds after it, a candidate that passes is reported unless a longer
\* one is, and the length reported is that of a candidate that passes.
BoundaryClassIs(Bnd(_, _)) ==
    (called /\ HasNoNul(text)) =>
        \A n \in CandidateLens(fst, text, callStart) :
            LET passes == callStart + n = Len(text) \/ Bnd(text, callStart + n)
            IN  /\ candidate_ok(Suffix(text, callStart + 1), n) <=> passes
                /\ passes => (ret # None /\ ret[1] >= n)
                /\ ret = Some(n) => passes

-----------------------------------------------------------------------------
(* Claims about the scanner (checked under SpecScan) *)

IsWordKey(k) == \A i \in 1..Len(k) : k[i] \in AsciiWord

\* s (0-based) is 0 or follows a seed byte
LeftBoundary(hay, s) == s = 0 \/ hay[s] \in SeedClass

\* the offsets at which a stored key occurs on a word boundary
Occurrences(f, hay) ==
    {s \in 0..(Len(hay) - 1) :
        /\ LeftBoundary(hay, s)
        /\ QualifyingLens(f, hay, s, AsciiBoundaryByteAfter) # {}}

YieldedStarts == {yields[i][1] : i \in 1..Len(yields)}

\* C1: when the keys are words, find_iter yields exactly one match per
\* occurrence of a stored key on a word boundary.
C1_SearchComplete ==
    (exhausted /\ \A k \in StoredKeys(fst) : IsWordKey(k)) =>
        /\ YieldedStarts = Occurrences(fst, haystack)
        /\ Len(yields) = Cardinality(Occurrences(fst, haystack))

\* C4: every yielded start is 0 or follows a seed byte.
C4_LeftBoundary ==
    \A i \in 1..Len(yields) : LeftBoundary(haystack, yields[i][1])

\* C5: successive matches (s1, l1), (s2, l2) satisfy s2 >= s1 + l1; starts
\* are strictly increasing.
C5_NonOverlap ==
    \A i \in 1..(Len(yields) - 1) :
        /\ yields[i + 1][1] >= yields[i][1] + yields[i][2]
        /\ yields[i + 1][1] > yields[i][1]

\* two matches were yielded, the second after seeds were discarded and probed
C5_Witness ==
    /\ Len(yields) >= 2
    /\ skip = 1

\* position p of the haystack holds a seed byte
SeedAt(hay, p) == p < Len(hay) /\ hay[p + 1] \in SeedClass

\* C17: the first seed (the line start) is probed at offset 0 and every later
\* seed at position p is probed at offset p + 1, also when the first probe
\* succeeded.
C17_ProbeRule ==
    \A i \in 1..Len(probes) :
        probes[i][2] = probes[i][1] + (IF i = 1 THEN 0 ELSE 1)

\* C18: after a match (s, l) the seeds discarded are those inside [s, s + l):
\* none outside it is discarded, every seed after s inside it is, and a seed
\* at s + l is kept and probed by a later next().
C18_SeedSkipping ==
    \A i \in 1..Len(yields) :
        LET s == yields[i][1]
            l == yields[i][2]
        IN  /\ \A j \in 1..Len(dropped[i]) : s <= dropped[i][j] /\ dropped[i][j] < s + l
            /\ \A p \in (s + 1)..(s + l - 1) :
                  SeedAt(haystack, p) => \E j \in 1..Len(dropped[i]) : dropped[i][j] = p
            /\ (exhausted /\ SeedAt(haystack, s + l)) =>
                  \E k \in 1..Len(probes) : probes[k][1] = s + l /\ probes[k][2] > s

-----------------------------------------------------------------------------
(* Claims about the quote scanner (checked under SpecQuotes) *)

\* The bytes that may follow a backslash in a JSON string: " \ / b f n r t
\* (\u and its four hex digits are not formed by the bytes of the model)
JsonEscapable == {34, 92, 47, 98, 102, 110, 114, 116}

\* The string tokens of a line as a JSON lexer finds them, from offset pos:
\* outside a string a quote opens one; inside, a backslash takes the next byte
\* with it and a quote closes the string.  ok is FALSE when a backslash is
\* outside a string or before a byte it cannot escape, or a string is not closed.
RECURSIVE JsonStringTokens(_, _, _, _)
JsonStringTokens(line, pos, open, acc) ==
    IF pos >= Len(line) THEN [ok |-> open = None, ranges |-> acc]
    ELSE IF open = None
    THEN IF line[pos + 1] = ByteQuote THEN JsonStringTokens(line, pos + 1, Some(pos), acc)
         ELSE IF line[pos + 1] = ByteBackslash THEN [ok |-> FALSE, ranges |-> acc]
         ELSE JsonStringTokens(line, pos + 1, open, acc)
    ELSE IF line[pos + 1] = ByteQuote
         THEN JsonStringTokens(line, pos + 1, None, Append(acc, <<open[1], pos + 1>>))
         ELSE IF line[pos + 1] = ByteBackslash
         THEN IF pos + 1 < Len(line) /\ line[pos + 2] \in JsonEscapable
              THEN JsonStringTokens(line, pos + 2, open, acc)
              ELSE [ok |-> FALSE, ranges |-> acc]
         ELSE JsonStringTokens(line, pos + 1, open, acc)

\* C8: on a line whose string tokens a JSON lexer finds at the ranges R,
\* jsonquotes_range_iter yields exactly R (both quote bytes included).
C8_QuoteScannerCorrect ==
    (qdone /\ JsonStringTokens(haystack, 0, None, <<>>).ok) =>
        ranges = JsonStringTokens(haystack, 0, None, <<>>).ranges

\* C24: on every line, also one whose first byte is a backslash or a quote,
\* JsonQuotes::next does not evaluate index - 1 with index = 0, and the scan
\* does not end in an arithmetic underflow panic.
\* (jsonquotes.rs:44 evaluates index - 1 at every backslash the scan passes;
\* jsonquotes.rs:32 evaluates it at a quote only when lastescape > 0, which
\* it is not at index 0.)
C24_NoIndexUnderflow ==
    /\ ~panicked
    /\ ~(qiter >= 1 /\ haystack[1] = ByteBackslash)

\* The indices JsonQuotes yields on the line, until it returns None
RECURSIVE StructuralQuotes(_, _, _, _)
StructuralQuotes(hay, pos, le, oc) ==
    LET body(r) ==
            IF r.panic \/ r.item = None THEN <<>>
            ELSE <<r.item[1]>> \o StructuralQuotes(hay, r.pos, r.le, oc)
    IN  With(JsonQuotes_next(hay, pos, le, oc), body)

\* the ranges yielded so far pair the indices q two by two
PairsOf(q) ==
    /\ Len(ranges) <= Len(q) \div 2
    /\ qdone => Len(ranges) = Len(q) \div 2
    /\ \A j \in 1..Len(ranges) :
          /\ ranges[j] = <<q[2 * j - 1], q[2 * j] + 1>>
          /\ ranges[j][1] < ranges[j][2]
          /\ ranges[j][2] <= Len(haystack)
          /\ haystack[ranges[j][1] + 1] = ByteQuote
          /\ haystack[ranges[j][2]] = ByteQuote
    /\ \A j \in 1..(Len(ranges) - 1) : ranges[j][2] <= ranges[j + 1][1]

\* C19: with the structural quotes at q0 < ... < q(k-1), the range iterator
\* yields floor(k/2) ranges, the j-th being (q(2j), q(2j+1) + 1); an unpaired
\* last index is dropped; each range (a, b) has a < b <= len and a quote at a
\* and at b - 1; the ranges are disjoint and increasing.
C19_QuotePairing ==
    With(StructuralQuotes(haystack, 0, 0, overflow_checks), PairsOf)

\* an odd number of structural quotes, at least three: one range, one dropped
C19_Witness ==
    /\ qdone
    /\ Len(ranges) >= 1
    /\ Len(StructuralQuotes(haystack, 0, 0, overflow_checks)) % 2 = 1

-----------------------------------------------------------------------------
(* Claims about the line drivers (checked under SpecPlain, SpecJson, SpecOnly) *)

OutBytes(o) == [i \in 1..Len(o) |-> o[i][1]]

\* The default template <{key}|{value}> rendered for a match; the stored
\* value stands for the line it decompresses to.
Rendered(sc) == <<60>> \o sc.key \o <<124>> \o sc.val \o <<62>>

\* The line with the span of each match find_iter emits replaced by its
\* rendering: the gap before each match, the rendering, then the tail.
RECURSIVE PlainExpected(_, _, _, _, _)
PlainExpected(f, sc, line, it, lastpos) ==
    LET body(r) ==
            IF r.item = None THEN SubSeq(line, lastpos + 1, Len(line))
            ELSE SubSeq(line, lastpos + 1, r.item[1]) \o Rendered(r.sc)
                 \o PlainExpected(f, r.sc, line, [skip |-> r.skip, reiter |-> r.reiter],
                                  r.item[1] + get_match_len(r.sc))
    IN  With(FstMatches_next(f, line, it, sc), body)

\* C9: in plain mode the bytes written for a line are the line with every
\* emitted match span replaced by the rendered match, every other byte
\* written once and in order.
C9_PlainOutput ==
    lineDone =>
        /\ ~panicked
        /\ OutBytes(out) = PlainExpected(fst, clear, haystack, FstMatches_new(haystack), 0)

\* the offsets of the line inside the ranges r[1..n]
InRanges(r, p) == \E j \in 1..Len(r) : r[j][1] <= p /\ p < r[j][2]

\* the string ranges the quote scanner finds in the line
RECURSIVE ScannerRanges(_, _, _, _)
ScannerRanges(line, pos, le, oc) ==
    LET body(r) ==
            IF r.item = None THEN <<>>
            ELSE <<r.item[1]>> \o ScannerRanges(line, r.pos, r.le, oc)
    IN  With(jsonquotes_range_next(line, pos, le, oc), body)

IsOutside(e) == e[2] >= 0 /\ ~InRanges(ScannerRanges(haystack, 0, 0, overflow_checks), e[2])

OutsideOffsets ==
    {p \in 0..(Len(haystack) - 1) :
        ~InRanges(ScannerRanges(haystack, 0, 0, overflow_checks), p)}

\* The frame of JSON mode in the runs that do not panic: every byte of the
\* line outside the string ranges is written unchanged, once and in order.
JsonFrameWritten ==
    (lineDone /\ ~panicked) =>
        LET outside == SelectSeq(out, IsOutside)
        IN  /\ Len(outside) = Cardinality(OutsideOffsets)
            /\ {outside[i][2] : i \in 1..Len(outside)} = OutsideOffsets
            /\ \A i \in 1..Len(out) :
                  out[i][2] >= 0 => out[i][1] = haystack[out[i][2] + 1]
            /\ \A i, j \in 1..Len(out) :
                  (i < j /\ out[i][2] >= 0 /\ out[j][2] >= 0 /\ (IsOutside(out[i]) \/ IsOutside(out[j])))
                      => out[i][2] < out[j][2]

\* C10: in JSON mode, for every input line, every byte of the line outside
\* the string ranges of the quote scanner is written unchanged, exactly once
\* and in its original order.
C10_JsonFrame ==
    lineDone => (~panicked /\ JsonFrameWritten)

\* a line with a string between two stretches of outside bytes, in which a
\* key was matched
JsonFrameWitness ==
    /\ lineDone /\ ~panicked
    /\ Len(ScannerRanges(haystack, 0, 0, overflow_checks)) >= 1
    /\ \E p, q \in OutsideOffsets : InRanges(ScannerRanges(haystack, 0, 0, overflow_checks), p + 1)
                                    /\ p < q
    /\ keycache # <<>>

\* The renderings of the matches of only-matching mode, each followed by a
\* newline: the keys found by longest_match from the start of the line and,
\* after a position without a match, from the byte after the next non-word byte.
RECURSIVE OnlyExpected(_, _, _, _)
OnlyExpected(f, sc, line, pos) ==
    IF pos >= Len(line) THEN <<>>
    ELSE LET matched(r) ==
                 IF r.ret = None
                 THEN LET nw == nonword_find(line, pos, Len(line))
                      IN  IF nw # None THEN OnlyExpected(f, r.sc, line, nw[1] + 1)
                          ELSE <<>>
                 ELSE Rendered(r.sc) \o <<ByteNewline>>
                      \o OnlyExpected(f, r.sc, line, pos + r.ret[1])
         IN  With(longest_match(f, sc, Suffix(line, pos + 1)), matched)

\* C11: in only-matching mode the output of a line is one rendered match
\* followed by a newline per match, and no byte of the input line is written.
C11_OnlyMatchingOutput ==
    lineDone =>
        /\ OutBytes(out) = OnlyExpected(fst, clear, haystack, 0)
        /\ \A i \in 1..Len(out) : out[i][2] = -1

-----------------------------------------------------------------------------
(* Claims about the loop of the line drivers (checked under SpecLoopFair and
   SpecLoop) *)

\* C23: every successful longest_match_at returns a length >= 1, also when
\* the FST holds a record with the empty key; each iteration of the loop
\* `while !input.is_empty()` consumes at least one byte of the input or
\* breaks; and the processing of the line terminates.
C23_LineTermination ==
    /\ []((called /\ ret # None) => ret[1] >= 1)
    /\ [][(~lineDone /\ text # <<>>) => (Len(text') < Len(text) \/ lineDone')]_vars
    /\ <>lineDone

C23_Witness ==
    /\ Rec(<<>>, LoopValue) \in fst
    /\ keycache # <<>>
    /\ lineDone

\* C25: for any text, also one that holds 0x00 bytes, whenever
\* longest_match_at returns Some(n) the bytes in the key buffer are the key
\* part K of a stored record K || 0x00 || C: the walk does not follow the
\* sentinel transition on a byte of the text, and the key buffer holds no
\* 0x00 byte.
C25_ReportedKeyIsStored ==
    (called /\ ret # None) =>
        /\ keycache \in StoredKeys(fst)
        /\ HasNoNul(keycache)

-----------------------------------------------------------------------------
(* Claims about the process (checked under SpecMain) *)

ColorWrapped(t) ==
    /\ IsPrefix(ANSI_RED, t)
    /\ Len(t) >= Len(ANSI_RED) + Len(ANSI_RESET)
    /\ SubSeq(t, Len(t) - Len(ANSI_RESET) + 1, Len(t)) = ANSI_RESET

\* C12: in JSON mode, whatever --color is, the template of the engine is not
\* wrapped in ESC[1;31m and ESC[0;0m.
C12_JsonColorOff ==
    (pc \in {"run", "exit"} /\ dispatch(args) = "runjson") => ~ColorWrapped(template)

\* C14: in every run mode, once a write has failed with a broken pipe the
\* process stops: it takes no further line of the input, and its next step is
\* the exit with status 0.
C14_BrokenPipeExit ==
    [][write_failed => (input' = input /\ pc' = "exit" /\ status' = 0)]_vars

\* C22: in every run mode, when a write of the output of a line has failed
\* with an I/O error other than broken pipe, the run ends with a non-zero
\* exit status.
C22_OutputErrorsSurface ==
    (pc = "exit" /\ io_failed) => status # 0

-----------------------------------------------------------------------------
(* Claims about the builder (checked under SpecBuild) *)

\* C13: when the output path exists, the build fails with an error before
\* writing, and the file is left unchanged.
C13_RefuseOverwrite ==
    [][(output # <<>> /\ result' # "none") => (result' = "Err" /\ output' = output)]_vars

\* The key string the selector finds in a consumed line (None: there is none)
KeyString(e) == value_extractor(key, from_slice(e[1]))

\* The three classes of a consumed line <<line, encoded>>
IsBlank(e) == e[1] = <<>>

IsErrored(e) ==
    /\ e[1] # <<>>
    /\ \/ from_slice(e[1]) = Null
       \/ KeyString(e) = None
       \/ ~e[2]

IsAccepted(e) == e[1] # <<>> /\ KeyString(e) # None /\ e[2]

Count(q, P(_)) == Len(SelectSeq(q, P))

\* K \o <<0>> \o ZSTD(line) for each accepted line, in the order of the input
RECURSIVE TuplesOf(_)
TuplesOf(q) ==
    IF q = <<>> THEN <<>>
    ELSE (IF IsAccepted(Head(q))
          THEN <<KeyString(Head(q))[1] \o <<SENTINEL>> \o ZSTD(Head(q)[1])>>
          ELSE <<>>) \o TuplesOf(Tail(q))

\* C15: the key part of every tuple the builder emits has no 0x00 byte: the
\* first 0x00 of the tuple is the sentinel after the key string of its line.
C15_KeysHaveNoNul ==
    \A i \in 1..Len(consumed) :
        IsAccepted(consumed[i]) =>
            /\ HasNoNul(KeyString(consumed[i])[1])
            /\ \E j \in 1..Len(vals) :
                  /\ vals[j] = make_tuple(KeyString(consumed[i])[1], consumed[i][1])
                  /\ KeyOf(vals[j]) = KeyString(consumed[i])[1]

\* C20: every line read is blank, errored or accepted and in one class only;
\* one tuple K \o <<0>> \o ZSTD(line) is buffered per accepted line and none
\* otherwise; the counters count the classes, and they add up to the lines
\* read; the build ends only when every line has been read.
C20_RecordAccounting ==
    /\ \A i \in 1..Len(consumed) :
          Cardinality({c \in {"blank", "errored", "accepted"} :
                          \/ c = "blank" /\ IsBlank(consumed[i])
                          \/ c = "errored" /\ IsErrored(consumed[i])
                          \/ c = "accepted" /\ IsAccepted(consumed[i])}) = 1
    /\ vals = IF result = "none" \/ sorted THEN TuplesOf(consumed)
              ELSE sort_unstable(TuplesOf(consumed))
    /\ Len(vals) = Count(consumed, IsAccepted)
    /\ num_errors = Count(consumed, IsErrored)
    /\ num_blanks = Count(consumed, IsBlank)
    /\ Len(vals) + num_errors + num_blanks = Len(consumed)
    /\ result # "none" => input = <<>>

\* an errored line was followed by an accepted one, and the build ended
C20_Witness ==
    /\ result = "Ok"
    /\ Len(consumed) >= 2
    /\ IsErrored(consumed[1])
    /\ IsAccepted(consumed[2])
    /\ Len(vals) = 1

\* The key strings of the accepted lines, in the order of the input
RECURSIVE KeysOf(_)
KeysOf(q) ==
    IF q = <<>> THEN <<>>
    ELSE (IF IsAccepted(Head(q)) THEN <<KeyString(Head(q))[1]>> ELSE <<>>) \o KeysOf(Tail(q))

NonDecreasing(q) == \A i \in 1..(Len(q) - 1) : ~LexLess(q[i + 1], q[i])

\* C21: the tuples handed to the FST writer are in non-decreasing order of
\* their bytes and every insert succeeds, when sorted = false, and when
\* sorted = true and the records of the input are in non-decreasing order of
\* their key (duplicate keys included).  Stated for the inputs whose keys
\* hold no 0x00 byte, where the key part of a tuple ends at its first 0x00.
C21_SortedInsertion ==
    ( /\ result \in {"Ok", "panic"}
      /\ \A i \in 1..Len(KeysOf(consumed)) : HasNoNul(KeysOf(consumed)[i])
      /\ (~sorted \/ NonDecreasing(KeysOf(consumed))) ) =>
        /\ NonDecreasing(vals)
        /\ result = "Ok"

=============================================================================
